---- MODULE Spec2Model ----
(***************************************************************************)
(* State-machine model of the fetch-and-reconcile loop of the GitHub star  *)
(* crawler.  The repository holds two copies of GitHubCrawler:             *)
(*   "src"  : src/src/crawler.py  (the defensive copy)                      *)
(*   "root" : src/crawler.py      (the older copy)                          *)
(* The variable `variant` says which copy runs; every operator that        *)
(* differs between the copies branches on it.                              *)
(*                                                                         *)
(* Value encoding.  Python None is "None" for strings and NullId for       *)
(* identifiers.  A timestamp *string* of the API is one of TsStrings; the  *)
(* datetime object that datetime.fromisoformat builds from it is one of    *)
(* "D0", "D1", "D2", so a datetime never equals the string it came from.   *)
(***************************************************************************)
EXTENDS Integers, Sequences, FiniteSets, TLC

\* ---------------------------------------------------------------- bounds
\* Config.MAX_RETRIES, Config.TOTAL_REPOS, Config.RETRY_DELAY (src/config.py
\* is injected configuration).
MAX_RETRIES == 2
TOTAL_REPOS == 3
RETRY_DELAY == 2
\* Longest page the upstream returns in the model (the API returns up to 100).
MaxNodes == 2

\* ------------------------------------------------------------- constants
NoKey  == -1   \* the node has no "databaseId" key
NullId == 0    \* the node's "databaseId" is null (None); falsy like 0
LowQuota  == 10
HighQuota == 5000

VARIABLES
  variant,               \* which copy of crawler.py runs
  world,                 \* what the upstream varies: "data", "quota", "plain"
  pc,                    \* position of run()
  cursor,                \* run: cursor
  has_next_page,         \* run: has_next_page
  total_fetched,         \* self.total_fetched
  rate_limit_remaining,  \* self.rate_limit_remaining
  rate_limit_reset,      \* self.rate_limit_reset: "None" or "Known"
  attempt,               \* make_graphql_request: attempt (0 outside a call)
  issued,                \* remote attempts issued by the current call
  page,                  \* nodes of the payload being normalized and saved
  result,                \* what fetch_repositories_batch returned
  db,                    \* repositories table as the session sees it
  metadata,              \* crawl_metadata table (totals of the summaries)
  now,                   \* datetime.utcnow(), a logical clock
  closed,                \* how many times DatabaseManager.close ran
  slept,                 \* seconds the last step slept, and why
  lastCall,              \* how the last make_graphql_request ended
  reqCursor,             \* cursor sent with the last request
  requests,              \* number of page fetches started in this run
  lastSave,              \* how the last save_batch_to_db ended
  exit,                  \* how run() left its try block
  clean,                 \* history: every batch so far was new, valid and committed
  input                  \* what the last step read: error list, seconds to the reset

vars == << variant, world, pc, cursor, has_next_page, total_fetched,
           rate_limit_remaining, rate_limit_reset, attempt, issued, page,
           result, db, metadata, now, closed, slept, lastCall, reqCursor, requests, lastSave,
           exit, clean, input >>

\* ------------------------------------------------------------ input data
\* A raw result node of the search query.  isNull: the node itself is null.
\* owner = "" : the node has no owner structure.
Node(n, i, nm, o, st, c, u) ==
  [isNull |-> n, databaseId |-> i, name |-> nm, owner |-> o,
   stargazerCount |-> st, createdAt |-> c, updatedAt |-> u]

BaseNode == Node(FALSE, 1, "a", "o", 10, "t0", "t1")

\* Well-formed nodes: two repositories, two star counts, two update times.
GoodNodes ==
  { Node(FALSE, 1, "a", "o", st, "t0", u) : st \in {10, 15}, u \in {"t1", "t2"} }
  \cup { Node(FALSE, 2, "a", "o", 10, "t0", "t1") }

\* Nodes that differ from BaseNode in one respect.
OddNodes ==
  { [BaseNode EXCEPT !.isNull = TRUE],
    [BaseNode EXCEPT !.databaseId = NoKey],
    [BaseNode EXCEPT !.databaseId = NullId],
    [BaseNode EXCEPT !.name = "b"],
    [BaseNode EXCEPT !.owner = ""],
    [BaseNode EXCEPT !.createdAt = "bad"],
    [BaseNode EXCEPT !.createdAt = "None"],
    [BaseNode EXCEPT !.updatedAt = "bad"],
    [BaseNode EXCEPT !.updatedAt = "None"] }

Nodes == GoodNodes \cup OddNodes

\* The node lists of a page: up to MaxNodes nodes, at most one of them odd.
NodeLists ==
  { l \in UNION { [1..k -> Nodes] : k \in 0..MaxNodes } :
      \A i, j \in 1..Len(l) : l[i] \in OddNodes /\ l[j] \in OddNodes => i = j }

Cursors == {"None", "c1"}

\* The "data" part of a 200 response without errors.  rl is the remaining
\* count of its rateLimit block, 0 when the block is absent.
\* The upstream of a run is one of two worlds.  "data": the pages vary, the
\* responses carry no quota information and one end cursor, and an attempt
\* ends in a payload, a transport failure or a 401.  "quota": the nodes are
\* well-formed, and the statuses, the cursors, the quota information and the
\* wall clock vary.  "plain" is "quota" without the quota information; the
\* runs under fairness are checked against it.
PlainLists == UNION { [1..k -> {BaseNode, Node(FALSE, 2, "a", "o", 10, "t0", "t1")}] :
                      k \in 0..MaxNodes }

Payloads(w) ==
  IF w = "data"
  THEN [nodes : NodeLists, hasNextPage : BOOLEAN, endCursor : {"c1"}, rl : {0}]
  ELSE [nodes : PlainLists, hasNextPage : BOOLEAN, endCursor : Cursors,
        rl : IF w = "plain" THEN {0} ELSE {0, LowQuota, HighQuota}]

\* -------------------------------------------------- timestamp conversion
\* datetime.fromisoformat(s.replace('Z', '+00:00')) succeeds on these.
ParseOK(s) == s \in {"t0", "t1", "t2"}

fromisoformat(s) ==
  CASE s = "t0" -> "D0"
    [] s = "t1" -> "D1"
    [] s = "t2" -> "D2"
    [] OTHER    -> "ERR"

\* The value a timestamp string stands for; null when absent or malformed.
TsValue(s) == IF ParseOK(s) THEN fromisoformat(s) ELSE "None"

\* ------------------------------------------------------ record normalizer
\* The dictionary the normalizer builds from one node.
Canonical(node) ==
  [github_id        |-> node.databaseId,
   name             |-> node.name,
   owner_login      |-> node.owner,
   stargazers_count |-> node.stargazerCount,
   created_at       |-> node.createdAt,
   updated_at       |-> node.updatedAt]

\* src copy: a null node and a node whose databaseId is missing or falsy are
\* skipped; a missing owner becomes the empty login.
KeepsNode(node) == ~node.isNull /\ node.databaseId > NullId

\* root copy: node["databaseId"], node["owner"]["login"] raise on a null node,
\* a missing key or a missing owner.
NodeRaises(node) == node.isNull \/ node.databaseId = NoKey \/ node.owner = ""

RECURSIVE NormalizeFrom(_, _)
NormalizeFrom(nodes, i) ==
  IF i > Len(nodes) THEN << >>
  ELSE IF KeepsNode(nodes[i])
       THEN << Canonical(nodes[i]) >> \o NormalizeFrom(nodes, i + 1)
       ELSE NormalizeFrom(nodes, i + 1)

\* The for loop over nodes of fetch_repositories_batch.  raised: an exception
\* left the loop (root copy only).
Normalize(v, nodes) ==
  IF v = "src"
  THEN [raised |-> FALSE, repositories |-> NormalizeFrom(nodes, 1)]
  ELSE IF \E i \in 1..Len(nodes) : NodeRaises(nodes[i])
       THEN [raised |-> TRUE, repositories |-> << >>]
       ELSE [raised |-> FALSE,
             repositories |-> [i \in 1..Len(nodes) |-> Canonical(nodes[i])]]

\* ---------------------------------------------------- reconciliation store
Row(r, c, u, t) ==
  [github_id        |-> r.github_id,
   name             |-> r.name,
   owner_login      |-> r.owner_login,
   stargazers_count |-> r.stargazers_count,
   created_at       |-> c,
   updated_at       |-> u,
   last_crawled     |-> t]

\* Mutant: a lookup that takes the first row whatever its identifier.
FirstWithAny(rows, id) == IF rows # << >> THEN 1 ELSE 0

\* query(Repository).filter_by(github_id=...).first(): index of the first
\* row with that identifier, 0 when there is none.  The session has
\* autoflush off, so the rows added earlier in the batch are not searched.
FirstWith(rows, id) ==
  IF \E i \in 1..Len(rows) : rows[i].github_id = id
  THEN CHOOSE i \in 1..Len(rows) :
         /\ rows[i].github_id = id
         /\ \A j \in 1..(i - 1) : rows[j].github_id # id
  ELSE 0

\* The "if existing" branch, src copy.
UpdateSrc(e, r, t) ==
  LET starsDiffer == e.stargazers_count # r.stargazers_count
      s           == r.updated_at
      tsDiffer    == s # "None" /\ ParseOK(s) /\ e.updated_at # fromisoformat(s)
      e1 == IF starsDiffer THEN [e EXCEPT !.stargazers_count = r.stargazers_count]
                           ELSE e
      e2 == IF tsDiffer THEN [e1 EXCEPT !.updated_at = fromisoformat(s)] ELSE e1
  IN  IF starsDiffer \/ tsDiffer THEN [e2 EXCEPT !.last_crawled = t] ELSE e2

\* The "if existing" branch, root copy: the persisted datetime is compared
\* with, and replaced by, the string of the API.
UpdateRoot(e, r, t) ==
  LET starsDiffer == e.stargazers_count # r.stargazers_count
      tsDiffer    == e.updated_at # r.updated_at
      e1 == IF starsDiffer THEN [e EXCEPT !.stargazers_count = r.stargazers_count]
                           ELSE e
      e2 == IF tsDiffer THEN [e1 EXCEPT !.updated_at = r.updated_at] ELSE e1
  IN  IF starsDiffer \/ tsDiffer THEN [e2 EXCEPT !.last_crawled = t] ELSE e2

\* Mutant: the update also takes the name and the owner of the new record.
UpdateExistingAll(v, e, r, t) ==
  [e EXCEPT !.name = r.name, !.owner_login = r.owner_login,
            !.stargazers_count = r.stargazers_count,
            !.updated_at = IF v = "src" THEN TsValue(r.updated_at) ELSE r.updated_at,
            !.last_crawled = t]

UpdateExisting(v, e, r, t) ==
  IF v = "src" THEN UpdateSrc(e, r, t) ELSE UpdateRoot(e, r, t)

\* The "else" branch, src copy: both conversions sit in one try block, so a
\* malformed creation time also leaves the update time null.
NewRowSrc(r, t) ==
  LET cOK == r.created_at = "None" \/ ParseOK(r.created_at)
      c   == IF r.created_at # "None" /\ ParseOK(r.created_at)
             THEN fromisoformat(r.created_at) ELSE "None"
      u   == IF cOK /\ r.updated_at # "None" /\ ParseOK(r.updated_at)
             THEN fromisoformat(r.updated_at) ELSE "None"
  IN  Row(r, c, u, t)

\* The "else" branch, root copy: the conversions are unguarded.
InsertRaisesRoot(r) == ~ParseOK(r.created_at) \/ ~ParseOK(r.updated_at)

NewRowRoot(r, t) ==
  Row(r, fromisoformat(r.created_at), fromisoformat(r.updated_at), t)

\* One pass of the for loop of save_batch_to_db over batch[i..].
\* rows: the persistent objects, pending: the objects added in this batch.
RECURSIVE SaveFrom(_, _, _, _, _, _)
SaveFrom(v, batch, i, rows, pending, t) ==
  IF i > Len(batch) THEN [raised |-> FALSE, rows |-> rows, pending |-> pending]
  ELSE
    LET r == batch[i]
        k == FirstWith(rows, r.github_id)
    IN  IF v = "src" /\ r.github_id <= NullId
        THEN SaveFrom(v, batch, i + 1, rows, pending, t)
        ELSE IF k # 0
        THEN CHOOSE out \in
               { SaveFrom(v, batch, i + 1, updated, pending, t) :
                   updated \in {[rows EXCEPT ![k] = UpdateExisting(v, rows[k], r, t)]} } : TRUE
        ELSE IF v = "src"
        THEN SaveFrom(v, batch, i + 1, rows, Append(pending, NewRowSrc(r, t)), t)
        ELSE IF InsertRaisesRoot(r)
        THEN [raised |-> TRUE, rows |-> rows, pending |-> pending]
        ELSE SaveFrom(v, batch, i + 1, rows, Append(pending, NewRowRoot(r, t)), t)

\* What the database stores for a row of the session: a string assigned to
\* updated_at is converted by the database when the row is flushed.
Stored(row) ==
  IF ParseOK(row.updated_at)
  THEN [row EXCEPT !.updated_at = fromisoformat(row.updated_at)]
  ELSE row

\* Mutant: a rollback that also loses the committed rows.
ReloadNone(rows) == << >>

\* The session after rollback(): every object is expired and read again.
Reload(rows) == [i \in 1..Len(rows) |-> Stored(rows[i])]

\* Mutant: a table without the key constraint.
KeyOKNoConstraint(rows) == TRUE

\* The repositories table rejects a flush that leaves a null or a repeated
\* github_id.
KeyOK(rows) ==
  /\ \A i \in 1..Len(rows) : rows[i].github_id # NullId
  /\ \A i, j \in 1..Len(rows) : rows[i].github_id = rows[j].github_id => i = j

\* The database rejects a value of updated_at that is no timestamp.
ValuesOK(rows) ==
  \A i \in 1..Len(rows) : rows[i].updated_at \in {"None", "D0", "D1", "D2", "t0", "t1", "t2"}

\* Mutant: the except clause without rollback(); the session keeps what the
\* loop did.
save_batch_no_rollback(v, rows, batch, t, fault) ==
  LET s == SaveFrom(v, batch, 1, rows, << >>, t)
  IN  s.rows \o s.pending

\* save_batch_to_db: the loop, then commit(), or rollback() when the loop or
\* the commit raised.  fault: the connection failed at commit.  s is the
\* outcome of the loop, computed once.
save_batch_to_db(v, rows, batch, t, fault) ==
  CHOOSE out \in
    { IF ~s.raised /\ ~fault /\ KeyOK(s.rows \o s.pending) /\ ValuesOK(s.rows \o s.pending)
      THEN s.rows \o s.pending
      ELSE Reload(rows) : s \in {SaveFrom(v, batch, 1, rows, << >>, t)} } : TRUE

\* How save_batch_to_db ends: "commit", or the reason of the rollback: the
\* loop raised, the connection failed, or the database rejected the flush.
SaveOutcome(v, rows, batch, t, fault) ==
  CHOOSE out \in
    { IF s.raised THEN "raised"
      ELSE IF fault THEN "fault"
      ELSE IF KeyOK(s.rows \o s.pending) /\ ValuesOK(s.rows \o s.pending) THEN "commit"
      ELSE "rejected" : s \in {SaveFrom(v, batch, 1, rows, << >>, t)} } : TRUE

\* --------------------------------------------------------- quota and sleep
\* (self.rate_limit_reset - datetime.now()).total_seconds(), as the wall
\* clock may make it when the reset time is known.
WaitSamples == {-5, 5, 100, 400, 5000}

\* Values of the Retry-After header; 60 also stands for its absence.
RetryAfters == {5, 60}

\* X-RateLimit-Remaining / X-RateLimit-Reset of a response: absent, or
\* present with a low or a high remaining count.
Headers(w) == IF w = "quota" THEN {"none", "low", "high"} ELSE {"none"}

HeaderRemaining(h, old) ==
  IF h = "low" THEN LowQuota ELSE IF h = "high" THEN HighQuota ELSE old

HeaderReset(h, old) == IF h = "none" THEN old ELSE "Known"

Min(a, b) == IF a < b THEN a ELSE b
Max(a, b) == IF a > b THEN a ELSE b

\* secs = 0: time.sleep was not called.
NoSleep == [why |-> "", secs |-> 0]
Sleep(why, secs) == [why |-> why, secs |-> secs]

\* Sleep of the 403 branch of make_graphql_request.
ForbiddenSleep(v, reset, w) ==
  IF reset = "Known"
  THEN IF v = "src"
       THEN IF w > 0 THEN Sleep("forbidden", Min(w + 10, 300)) ELSE Sleep("forbidden", 0)
       ELSE Sleep("forbidden", Max(60, Min(w, 3600)))
  ELSE Sleep("forbidden", 300)

\* Low-water threshold of the throttle check of run.
LowWater(v) == IF v = "src" THEN 50 ELSE 100

\* Mutant: a throttle check that sleeps to the reset time without a cap.
ThrottleSleepUncapped(v, remaining, reset, w) ==
  IF remaining < LowWater(v)
  THEN IF reset = "Known" THEN Sleep("throttle", Max(w, 0)) ELSE Sleep("throttle", 60)
  ELSE NoSleep

\* Sleep of the throttle check at the head of the loop of run.
ThrottleSleep(v, remaining, reset, w) ==
  IF remaining < LowWater(v)
  THEN IF reset = "Known"
       THEN IF w > 0
            THEN Sleep("throttle", IF v = "src" THEN Min(w + 10, 300) ELSE Min(w, 300))
            ELSE Sleep("throttle", 0)
       ELSE Sleep("throttle", 60)
  ELSE NoSleep

\* Mutant: the same delay after every attempt.
LinearBackoffFlat(a) == Sleep("backoff", RETRY_DELAY)

\* time.sleep(Config.RETRY_DELAY * (attempt + 1))
LinearBackoff(a) == Sleep("backoff", RETRY_DELAY * (a + 1))

\* ------------------------------------------------------------------ state
\* What a step read from the response or the wall clock.  errors: where the
\* error list of a 200 response carries a rate-limit message ("" without a
\* list); wait: the seconds to the reset time (0 when the step did not
\* compute them); header, block: the rate-limit headers and the remaining
\* count of the rateLimit block of a response that returned a payload.
NoInput == [errors |-> "", wait |-> 0, header |-> "none", block |-> 0]
ReadErrors(where) == [NoInput EXCEPT !.errors = where]
ReadWait(w) == [NoInput EXCEPT !.wait = w]
ReadPayload(h, rl) == [NoInput EXCEPT !.header = h, !.block = rl]

EmptyResult == [repositories |-> << >>, has_next_page |-> FALSE, end_cursor |-> "None"]

InitCommon ==
  /\ pc = "loop"
  /\ cursor = "None"
  /\ has_next_page = TRUE
  /\ total_fetched = 0
  /\ rate_limit_remaining = HighQuota
  /\ rate_limit_reset = "None"
  /\ attempt = 0
  /\ issued = 0
  /\ page = << >>
  /\ result = EmptyResult
  /\ db = << >>
  /\ metadata = << >>
  /\ now = 1
  /\ closed = 0
  /\ slept = NoSleep
  /\ lastCall = ""
  /\ reqCursor = "None"
  /\ requests = 0
  /\ lastSave = ""
  /\ exit = ""
  /\ clean = TRUE
  /\ input = NoInput

Init == variant \in {"src", "root"} /\ world \in {"data", "quota"} /\ InitCommon

InitSrc == variant = "src" /\ world \in {"data", "quota"} /\ InitCommon

InTry == pc \in {"loop", "request", "fetched", "finalize"}

\* ------------------------------------------------------------------- run
\* Mutant: a while test that ignores the running total.
ContinuesAnyTotal(more, total) == more

\* while has_next_page and self.total_fetched < Config.TOTAL_REPOS
Continues(more, total) == more /\ total < TOTAL_REPOS

\* Mutant: the next fetch may start while a batch waits to be saved.
LoopTestEarly ==
  /\ pc \in {"loop", "fetched"}
  /\ Continues(has_next_page, total_fetched)
  /\ slept' = NoSleep
  /\ input' = NoInput
  /\ pc' = "request"
  /\ attempt' = 0
  /\ issued' = 0
  /\ reqCursor' = cursor
  /\ requests' = requests + 1
  /\ UNCHANGED << variant, world, clean, cursor, has_next_page, total_fetched, rate_limit_remaining,
                  rate_limit_reset, page, result, db, metadata, now, closed, lastCall,
                  lastSave, exit >>

\* The while test and the throttle check of run, then the call of
\* fetch_repositories_batch up to the first attempt.
LoopTest ==
  /\ pc = "loop"
  /\ IF Continues(has_next_page, total_fetched)
     THEN /\ \E w \in WaitSamples :
               /\ slept' = ThrottleSleep(variant, rate_limit_remaining, rate_limit_reset, w)
               /\ input' = IF rate_limit_remaining < LowWater(variant)
                               /\ rate_limit_reset = "Known"
                            THEN ReadWait(w) ELSE NoInput
          /\ pc' = "request"
          /\ attempt' = 0
          /\ issued' = 0
          /\ reqCursor' = cursor
          /\ requests' = requests + 1
     ELSE /\ pc' = "finalize"
          /\ input' = NoInput
          /\ UNCHANGED << slept, attempt, issued, reqCursor, requests >>
  /\ UNCHANGED << variant, world, clean, cursor, has_next_page, total_fetched, rate_limit_remaining,
                  rate_limit_reset, page, result, db, metadata, now, closed, lastCall,
                  lastSave, exit >>

\* ---------------------------------------------------- make_graphql_request
\* Mutant: a retried attempt that is not counted.
NextAttemptFree(a) == a

\* The attempt counter after an attempt that is retried.
NextAttempt(a) == a + 1

\* End of a loop iteration that did not return: the next attempt, or
\* "Max retries exceeded" and the empty result of fetch_repositories_batch.
Retry(sl) ==
  /\ slept' = sl
  /\ IF NextAttempt(attempt) >= MAX_RETRIES
     THEN /\ pc' = "fetched"
          /\ attempt' = 0
          /\ issued' = 0
          /\ result' = EmptyResult
          /\ lastCall' = "exhausted"
     ELSE /\ pc' = "request"
          /\ attempt' = NextAttempt(attempt)
          /\ issued' = issued + 1
          /\ UNCHANGED << result, lastCall >>

\* A return None before the budget is used up.
GiveUp(why) ==
  /\ attempt' = 0
  /\ issued' = 0
  /\ slept' = NoSleep
  /\ pc' = "fetched"
  /\ result' = EmptyResult
  /\ lastCall' = why

Responds(h) ==
  /\ rate_limit_remaining' = HeaderRemaining(h, rate_limit_remaining)
  /\ rate_limit_reset' = HeaderReset(h, rate_limit_reset)

RunFrame ==
  UNCHANGED << variant, world, clean, cursor, has_next_page, total_fetched, db, metadata, now,
               closed, reqCursor, requests, lastSave >>

\* An attempt that ends without a payload leaves the page of the run alone.
NoPayload == UNCHANGED page

\* Status 200 without errors: the payload is returned and the rest of
\* fetch_repositories_batch normalizes it.
AttemptOK ==
  /\ pc = "request" /\ attempt < MAX_RETRIES
  /\ \E h \in Headers(world), p \in Payloads(world) :
       LET n == Normalize(variant, p.nodes)
       IN  /\ rate_limit_remaining' =
                IF p.rl # 0 THEN p.rl ELSE HeaderRemaining(h, rate_limit_remaining)
           /\ rate_limit_reset' = HeaderReset(h, rate_limit_reset)
           /\ attempt' = 0
           /\ issued' = 0
           /\ page' = p.nodes
           /\ slept' = NoSleep
           /\ lastCall' = "ok"
           /\ input' = ReadPayload(h, p.rl)
           /\ IF n.raised
              THEN /\ pc' = "close"
                   /\ exit' = "error"
                   /\ result' = EmptyResult
              ELSE /\ pc' = "fetched"
                   /\ exit' = exit
                   /\ result' = [repositories  |-> n.repositories,
                                 has_next_page |-> p.hasNextPage,
                                 end_cursor    |-> p.endCursor]
  /\ RunFrame

\* Does the copy see a rate-limit message in the errors of the payload?
\* first: the first error carries it; later: only a later error does.
SeesRateLimit(v, where) ==
  \/ where = "first"
  \/ where = "later" /\ v = "root"

\* Status 200 with errors.
AttemptGraphQLError ==
  /\ pc = "request" /\ attempt < MAX_RETRIES /\ world # "data"
  /\ \E h \in Headers(world), where \in {"first", "later", "nowhere"} :
       /\ Responds(h)
       /\ input' = ReadErrors(where)
       /\ IF SeesRateLimit(variant, where)
          THEN Retry(Sleep("cooldown", 60))
          ELSE GiveUp("gqlerror")
  /\ exit' = exit
  /\ NoPayload
  /\ RunFrame

\* Status 429.
AttemptTooMany ==
  /\ pc = "request" /\ attempt < MAX_RETRIES /\ world # "data"
  /\ \E h \in Headers(world), ra \in RetryAfters :
       /\ Responds(h)
       /\ Retry(Sleep("retry-after", ra))
  /\ input' = NoInput
  /\ exit' = exit
  /\ NoPayload
  /\ RunFrame

\* Status 401.
AttemptUnauthorized ==
  /\ pc = "request" /\ attempt < MAX_RETRIES
  /\ \E h \in Headers(world) : Responds(h)
  /\ GiveUp("unauthorized")
  /\ input' = NoInput
  /\ exit' = exit
  /\ NoPayload
  /\ RunFrame

\* Status 403.
AttemptForbidden ==
  /\ pc = "request" /\ attempt < MAX_RETRIES /\ world # "data"
  /\ \E h \in Headers(world), w \in WaitSamples :
       /\ Responds(h)
       /\ Retry(ForbiddenSleep(variant, HeaderReset(h, rate_limit_reset), w))
       /\ input' = IF HeaderReset(h, rate_limit_reset) = "Known"
                    THEN ReadWait(w) ELSE NoInput
  /\ exit' = exit
  /\ NoPayload
  /\ RunFrame

\* Any other status.
AttemptOtherStatus ==
  /\ pc = "request" /\ attempt < MAX_RETRIES /\ world # "data"
  /\ \E h \in Headers(world) : Responds(h)
  /\ Retry(LinearBackoff(attempt))
  /\ input' = NoInput
  /\ exit' = exit
  /\ NoPayload
  /\ RunFrame

\* requests.exceptions.RequestException: timeout, connection error.
AttemptTransport ==
  /\ pc = "request" /\ attempt < MAX_RETRIES
  /\ Retry(LinearBackoff(attempt))
  /\ input' = NoInput
  /\ UNCHANGED << rate_limit_remaining, rate_limit_reset, exit >>
  /\ NoPayload
  /\ RunFrame

\* An exception that is no RequestException (a rate-limit or Retry-After
\* header that is no number) leaves make_graphql_request and reaches the
\* "except Exception" handler of run.
AttemptRaises ==
  /\ pc = "request" /\ attempt < MAX_RETRIES /\ world # "data"
  /\ attempt' = 0
  /\ issued' = 0
  /\ slept' = NoSleep
  /\ pc' = "close"
  /\ exit' = "error"
  /\ lastCall' = "raised"
  /\ input' = NoInput
  /\ UNCHANGED << rate_limit_remaining, rate_limit_reset, result >>
  /\ NoPayload
  /\ RunFrame

\* ------------------------------------------------------- rest of the loop
\* Does the connection fail at the commit of a batch?  It may in the
\* "quota" world.
CommitFaults(w) == IF w = "data" THEN {FALSE} ELSE BOOLEAN

\* A node with an identifier, an owner and well-formed timestamps.
ValidNode(node) ==
  /\ ~node.isNull /\ node.databaseId > NullId /\ node.owner # ""
  /\ ParseOK(node.createdAt) /\ ParseOK(node.updatedAt)

\* Every node of the page is valid, and its identifier occurs once in the
\* page and not in the store.
FreshPage(nodes, rows) ==
  /\ \A i \in DOMAIN nodes : ValidNode(nodes[i])
  /\ \A i, j \in DOMAIN nodes : nodes[i].databaseId = nodes[j].databaseId => i = j
  /\ \A i \in DOMAIN nodes : \A k \in DOMAIN rows : rows[k].github_id # nodes[i].databaseId

\* Mutant: a total that counts each identifier of the batch once.
NewTotalDistinct(total, batch) ==
  total + Cardinality({ batch[i].github_id : i \in DOMAIN batch })

\* batch_size = len(result["repositories"]); self.total_fetched += batch_size
NewTotal(total, batch) == total + Len(batch)

\* Mutant: "continue" in place of "break".
OnEmptyBatchContinue == "loop"

\* Where "if not result[repositories]: break" sends run.
OnEmptyBatch == "finalize"

\* "if not result[repositories]: break", else save_batch_to_db, the
\* counters, has_next_page, cursor and the inter-page delay (0.5 s, below
\* the resolution of secs).
ProcessBatch ==
  /\ pc = "fetched"
  /\ IF result.repositories = << >>
     THEN /\ pc' = OnEmptyBatch
          /\ UNCHANGED << db, now, total_fetched, has_next_page, cursor, slept, lastSave,
                          clean >>
     ELSE \E fault \in CommitFaults(world) :
          /\ db' = save_batch_to_db(variant, db, result.repositories, now, fault)
          /\ lastSave' = SaveOutcome(variant, db, result.repositories, now, fault)
          /\ clean' = (clean /\ FreshPage(page, db) /\ lastSave' = "commit")
          /\ now' = now + 1
          /\ total_fetched' = NewTotal(total_fetched, result.repositories)
          /\ has_next_page' = result.has_next_page
          /\ cursor' = result.end_cursor
          /\ slept' = Sleep("interpage", 0)
          /\ pc' = "loop"
  /\ result' = EmptyResult
  /\ page' = << >>
  /\ input' = NoInput
  /\ UNCHANGED << variant, world, rate_limit_remaining, rate_limit_reset, attempt, issued, metadata,
                  closed, lastCall, reqCursor, requests, exit >>

\* After the loop: the CrawlMetadata row is added and committed.  fault: the
\* commit raises, which the "except Exception" handler re-raises.
Finalize ==
  /\ pc = "finalize"
  /\ \E fault \in BOOLEAN :
       IF fault
       THEN /\ exit' = "error"
            /\ UNCHANGED metadata
       ELSE /\ exit' = "normal"
            /\ metadata' = Append(metadata,
                 [total_repos_crawled  |-> total_fetched,
                  rate_limit_remaining |-> rate_limit_remaining,
                  rate_limit_reset     |-> rate_limit_reset])
  /\ pc' = "close"
  /\ input' = NoInput
  /\ UNCHANGED << variant, world, clean, cursor, has_next_page, total_fetched, rate_limit_remaining,
                  rate_limit_reset, attempt, issued, page, result, db, now, closed, slept,
                  lastCall, reqCursor, requests, lastSave >>

\* KeyboardInterrupt anywhere in the try block: the handler closes the
\* progress bar and nothing else; then the finally clause closes the store.
Interrupt ==
  /\ InTry
  /\ exit' = "interrupt"
  /\ closed' = closed + 1
  /\ db' = Reload(db)
  /\ pc' = "done"
  /\ input' = NoInput
  /\ UNCHANGED << variant, world, clean, cursor, has_next_page, total_fetched, rate_limit_remaining,
                  rate_limit_reset, attempt, issued, page, result, metadata, now, slept,
                  lastCall, reqCursor, requests, lastSave >>

\* Mutant: run without the finally clause: the store stays open.
CloseNever ==
  /\ pc = "close"
  /\ pc' = "done"
  /\ input' = NoInput
  /\ UNCHANGED << variant, world, clean, cursor, has_next_page, total_fetched, rate_limit_remaining,
                  rate_limit_reset, attempt, issued, page, result, db, metadata, now, slept,
                  lastCall, reqCursor, requests, lastSave, exit, closed >>

\* finally: self.db.close().  The session is closed, which discards what was
\* not committed.
Close ==
  /\ pc = "close"
  /\ closed' = closed + 1
  /\ db' = Reload(db)
  /\ pc' = "done"
  /\ input' = NoInput
  /\ UNCHANGED << variant, world, clean, cursor, has_next_page, total_fetched, rate_limit_remaining,
                  rate_limit_reset, attempt, issued, page, result, metadata, now, slept,
                  lastCall, reqCursor, requests, lastSave, exit >>

Next ==
  \/ LoopTest
  \/ AttemptOK
  \/ AttemptGraphQLError
  \/ AttemptTooMany
  \/ AttemptUnauthorized
  \/ AttemptForbidden
  \/ AttemptOtherStatus
  \/ AttemptTransport
  \/ AttemptRaises
  \/ ProcessBatch
  \/ Finalize
  \/ Interrupt
  \/ Close

Spec == Init /\ [][Next]_vars

SpecSrc == InitSrc /\ [][Next]_vars

\* One attempt of make_graphql_request, whatever its outcome.
Attempt ==
  \/ AttemptOK
  \/ AttemptGraphQLError
  \/ AttemptTooMany
  \/ AttemptUnauthorized
  \/ AttemptForbidden
  \/ AttemptOtherStatus
  \/ AttemptTransport
  \/ AttemptRaises

\* A step of run itself: every step but the arrival of an interrupt.
Step == LoopTest \/ Attempt \/ ProcessBatch \/ Finalize \/ Close

\* The src/src copy against the upstream whose statuses vary.
InitSrcPlain == variant = "src" /\ world = "plain" /\ InitCommon

\* The src/src copy under the assumption that every remote attempt comes
\* back and every sleep ends: run is one sequential flow, so its next step
\* is taken whenever there is one.  No interrupt is assumed to arrive.
SpecSrcLive == InitSrcPlain /\ [][Next]_vars /\ WF_vars(Step)

\* ================================================================= claims
\* What the database holds for the rows of the session.
Persisted(rows) == Reload(rows)

\* The step of run that reconciles a non-empty batch.
SavesBatch == pc = "fetched" /\ result.repositories # << >> /\ pc' = "loop"

\* C1: every run writes exactly one crawl-session summary, whether it ends
\* normally (target reached, no more pages, empty page, exhausted request)
\* or by a KeyboardInterrupt.
C1_OneSummaryPerRun ==
  pc = "done" /\ exit \in {"normal", "interrupt"} => Len(metadata) = 1

\* C2: reconciling records that have the identifier, the star count and the
\* update timestamp of persisted records leaves the persisted records
\* unchanged, last-crawled included.
C2_SameAs(r, e) ==
  /\ r.github_id = e.github_id
  /\ r.stargazers_count = e.stargazers_count
  /\ ParseOK(r.updated_at)
  /\ fromisoformat(r.updated_at) = Stored(e).updated_at

C2_Idempotent ==
  [][ ( /\ SavesBatch
        /\ \A i \in DOMAIN result.repositories :
             \E k \in DOMAIN db : C2_SameAs(result.repositories[i], db[k]) )
      => Persisted(db') = Persisted(db) ]_vars

\* C3: the persisted store never holds two records with one identifier, nor
\* a record with a null identifier.
C3_UniqueNonNull ==
  /\ \A i, j \in DOMAIN db : db[i].github_id = db[j].github_id => i = j
  /\ \A i \in DOMAIN db : db[i].github_id > NullId

\* A batch that held one new identifier twice was turned down while the
\* store already held a record.
C3_Witness == variant = "src" /\ lastSave = "rejected" /\ Len(db) >= 1

\* C4: a node without a stable identifier is left out of the batch, the
\* other nodes of its page are kept, and the store changes exactly as it
\* does for the batch of those other nodes.
C4_HasId(node) == ~node.isNull /\ node.databaseId > NullId

C4_LacksId(node) == ~node.isNull /\ node.databaseId <= NullId

RECURSIVE C4_Kept(_)
C4_Kept(nodes) ==
  IF nodes = << >> THEN << >>
  ELSE IF C4_HasId(Head(nodes))
       THEN << Canonical(Head(nodes)) >> \o C4_Kept(Tail(nodes))
       ELSE C4_Kept(Tail(nodes))

C4_PageLacksId == \E i \in DOMAIN page : C4_LacksId(page[i])

C4_NoIdNoEffect ==
  /\ [](C4_PageLacksId /\ exit # "interrupt"
          => pc = "fetched" /\ result.repositories = C4_Kept(page))
  /\ [][ (pc = "fetched" /\ C4_PageLacksId /\ page' = << >>)
         => /\ db' \in { save_batch_to_db(variant, db, C4_Kept(page), now, f) :
                         f \in BOOLEAN }
            /\ \A i \in DOMAIN db' : db'[i].github_id > NullId ]_vars

\* C5: one call of make_graphql_request issues at most MAX_RETRIES attempts;
\* every retried outcome uses up one attempt; the call returns a payload or
\* the empty result, and the exhausted signal comes with the last attempt.
C5_BoundedAttempts ==
  /\ [](pc = "request" => issued < MAX_RETRIES /\ issued = attempt)
  /\ [][ (pc = "request" /\ pc' = "request")
         => issued' = issued + 1 /\ slept'.why # "" ]_vars
  /\ [][ (pc = "request" /\ pc' = "fetched")
         => /\ lastCall' = "ok" \/ result' = EmptyResult
            /\ lastCall' = "exhausted" => issued = MAX_RETRIES - 1 ]_vars

\* A call used up its budget after retried outcomes.
C5_Witness == pc = "fetched" /\ lastCall = "exhausted" /\ slept.why # ""

\* C6: once a request has exhausted its budget the page is empty with
\* has-next false, no further page fetch is issued, and run is on its way
\* to the end.
C6_StopsAfterExhausted ==
  lastCall = "exhausted"
    => /\ pc \in {"fetched", "finalize", "close", "done"}
       /\ pc = "fetched" => result = EmptyResult

\* The run ended after an exhausted request although the page before it
\* reported more pages.
C6_Witness ==
  lastCall = "exhausted" /\ has_next_page /\ requests >= 2 /\ pc = "done"

\* C7: after a 401 no further attempt or page fetch is made and no session
\* summary is written.
C7_AbortOnUnauthorized ==
  lastCall = "unauthorized" => pc # "request" /\ metadata = << >>

\* C8: a 403 sleeps (reset - now) clamped to 60..3600 s when the reset time
\* is known, and 300 s when it is not.
C8_ForbiddenSleep ==
  slept.why = "forbidden"
    => IF rate_limit_reset = "Known"
       THEN slept.secs >= 60 /\ slept.secs <= 3600
       ELSE slept.secs = 300

\* C9: in a batch that commits, a record whose identifier is persisted and
\* whose star count or update timestamp differs from the persisted ones
\* gives the persisted record its star count and update timestamp and a
\* fresh last-crawled, and leaves every other field alone.  Of the records
\* of a batch with one identifier the last one decides.
C9_IsLast(batch, i) ==
  \A j \in DOMAIN batch : j > i => batch[j].github_id # batch[i].github_id

C9_Differs(r, e) ==
  /\ r.github_id = e.github_id
  /\ \/ r.stargazers_count # e.stargazers_count
     \/ TsValue(r.updated_at) # Stored(e).updated_at

C9_Effect(r, e, e2, t) ==
  /\ e2.stargazers_count = r.stargazers_count
  /\ Stored(e2).updated_at = TsValue(r.updated_at)
  /\ e2.last_crawled = t
  /\ e2.github_id = e.github_id
  /\ e2.name = e.name
  /\ e2.owner_login = e.owner_login
  /\ e2.created_at = e.created_at

C10_AtomicBatch ==
  [][ ( /\ pc = "fetched" /\ result.repositories # << >> /\ page' = << >>
        /\ lastSave' # "commit" )
      => /\ Persisted(db') = Persisted(db)
         /\ pc' = "loop"
         /\ exit' = ""
         /\ has_next_page' = result.has_next_page
         /\ cursor' = result.end_cursor ]_vars

\* The next page is being fetched after a batch that was rolled back.
C10_Witness ==
  lastSave \in {"fault", "rejected"} /\ pc = "request" /\ requests >= 2

\* C11: in a run whose pages all succeed with valid nodes of identifiers
\* that are new to the store, and whose last page reports has-next false,
\* the store ends with as many records as the pages held (each page adds
\* its size to the store and to the running total), the summary records
\* that total, and each page is requested with the end cursor of the page
\* before it.
C11_ScenarioA ==
  /\ [](pc = "done" /\ exit = "normal" /\ clean /\ ~has_next_page
          => /\ Len(db) = total_fetched
             /\ Len(metadata) = 1
             /\ metadata[1].total_repos_crawled = total_fetched)
  /\ [][ (SavesBatch /\ clean')
         => /\ total_fetched' = total_fetched + Len(page)
            /\ Len(db') = Len(db) + Len(page)
            /\ cursor' = result.end_cursor ]_vars
  /\ [][ (pc = "loop" /\ pc' = "request") => reqCursor' = cursor ]_vars

\* Two pages, the second requested with the cursor "c1" of the first, ended
\* the run at has-next false with both records stored.
C11_Witness ==
  /\ pc = "done" /\ exit = "normal" /\ clean /\ ~has_next_page
  /\ requests = 2 /\ reqCursor = "c1" /\ Len(db) = 2
  /\ total_fetched < TOTAL_REPOS

\* C12: after a KeyboardInterrupt no further page fetch is issued, and the
\* session summary is written before the store connection is released.
C12_InterruptFinalizes ==
  exit = "interrupt"
    => /\ pc \notin {"loop", "request", "fetched"}
       /\ closed >= 1 => Len(metadata) >= 1

\* C13: every identifier that is persisted before a step is persisted after
\* it: rows are inserted and updated, never removed, by a commit, a
\* rollback, an interrupt or the close of the store.
C13_Ids(rows) == { rows[i].github_id : i \in DOMAIN rows }

C13_NeverShrinks ==
  [][ /\ C13_Ids(Persisted(db)) \subseteq C13_Ids(Persisted(db'))
      /\ Len(db') >= Len(db) ]_vars

\* A run ended with two records stored after a batch was rolled back.
C13_Witness ==
  pc = "done" /\ Len(db) = 2 /\ lastSave \in {"raised", "fault", "rejected"}

\* C14: whatever defects the other nodes of a fetched page have, every valid
\* node of the page is in the batch that the normalizer returns, and the
\* page does not end the run with an error.
C14_InBatch(node, batch) == \E j \in DOMAIN batch : batch[j] = Canonical(node)

C14_IsolatesNodes ==
  page # << >>
    => /\ exit # "error"
       /\ \A i \in DOMAIN page :
            ValidNode(page[i]) => C14_InBatch(page[i], result.repositories)

\* C15: a record with a new identifier whose creation or update timestamp
\* is absent or malformed is inserted when its batch is saved, with null in
\* each field that does not parse, and the other records of the batch are
\* saved with it.  (Batches whose identifiers are present and distinct, the
\* connection working.)
C15_BadTimestamp(r) == ~ParseOK(r.created_at) \/ ~ParseOK(r.updated_at)

C15_PlainIds(batch) ==
  /\ \A i \in DOMAIN batch : batch[i].github_id > NullId
  /\ \A i, j \in DOMAIN batch : batch[i].github_id = batch[j].github_id => i = j

C15_IsNew(r, rows) == \A k \in DOMAIN rows : rows[k].github_id # r.github_id

C15_StoredNull(r, rows) ==
  \E k \in DOMAIN rows :
    /\ rows[k].github_id = r.github_id
    /\ ~ParseOK(r.created_at) => rows[k].created_at = "None"
    /\ ~ParseOK(r.updated_at) => rows[k].updated_at = "None"

C15_NullTimestamp ==
  [][ ( /\ SavesBatch
        /\ lastSave' # "fault"
        /\ C15_PlainIds(result.repositories)
        /\ \E i \in DOMAIN result.repositories :
             /\ C15_BadTimestamp(result.repositories[i])
             /\ C15_IsNew(result.repositories[i], db) )
      => /\ lastSave' = "commit"
         /\ \A i \in DOMAIN result.repositories :
              C15_IsNew(result.repositories[i], db)
                => C15_StoredNull(result.repositories[i], Persisted(db')) ]_vars

\* C16: whatever an attempt meets, make_graphql_request returns a payload
\* or None: no exception leaves it, so a run that started a fetch ends with
\* an error only when the commit of the summary failed.
C16_NoEscape ==
  /\ lastCall # "raised"
  /\ (exit = "error" /\ requests > 0) => lastCall \in {"ok", "exhausted", "unauthorized", "gqlerror"}

\* C17: a page fetch starts only when has_next_page is true (as it is before
\* the first page) and the running total is below the target, so the
\* running total stays below the target plus one page.
C17_FetchGuard ==
  /\ [][ requests' # requests
         => /\ has_next_page /\ total_fetched < TOTAL_REPOS
            /\ requests' = requests + 1 /\ pc' = "request" ]_vars
  /\ [][ (pc # "request" /\ pc' = "request") => requests' = requests + 1 ]_vars
  /\ [](total_fetched < TOTAL_REPOS + MaxNodes)

\* A run ended above the target: the last page took the total past it.
C17_Witness == pc = "done" /\ exit = "normal" /\ total_fetched > TOTAL_REPOS

\* C18: when the batch of a fetched page is empty (the page held no node, or
\* the normalizer dropped them all) the loop is left, whatever the page
\* says about more pages, and no page is fetched afterwards.
C18_EmptyPageStops ==
  /\ [][ (pc = "fetched" /\ result.repositories = << >>)
         => pc' \in {"finalize", "done"} /\ requests' = requests ]_vars
  /\ [][ (pc \in {"finalize", "close", "done"})
         => pc' \in {"close", "done"} /\ requests' = requests ]_vars

\* The run ended normally after a page that came back without records,
\* while has_next_page was true and the target was not reached.
C18_Witness ==
  /\ pc = "done" /\ exit = "normal" /\ lastCall = "ok"
  /\ has_next_page /\ total_fetched < TOTAL_REPOS /\ requests >= 2

\* C19: at the head of the loop, with the remaining quota below the
\* low-water threshold, run sleeps before it fetches: to the reset time (at
\* most ten seconds past it) and never more than 300 s when the reset time
\* is known, the fallback of 60 s when it is not; with the quota at or above
\* the threshold it does not sleep.
C19_Throttle ==
  [][ (pc = "loop" /\ pc' = "request")
      => IF rate_limit_remaining < LowWater(variant)
         THEN IF rate_limit_reset = "Known"
              THEN /\ slept'.secs >= Min(Max(input'.wait, 0), 300)
                   /\ slept'.secs <= Min(Max(input'.wait, 0) + 10, 300)
              ELSE slept' = Sleep("throttle", 60)
         ELSE slept' = NoSleep ]_vars

\* The reset time was 400 s away and run slept the cap of 300 s.
C19_Witness ==
  pc = "request" /\ attempt = 0 /\ slept = Sleep("throttle", 300) /\ input.wait = 400

\* C20: a 200 response with an error list: when any error of the list
\* speaks of the rate limit, the first or a later one, the call sleeps 60 s
\* and goes to its next attempt (or returns exhausted after the last one);
\* when none does, the call returns at once without another attempt.
C20_EmbeddedErrors ==
  [][ (pc = "request" /\ input'.errors # "")
      => IF input'.errors \in {"first", "later"}
         THEN /\ slept' = Sleep("cooldown", 60)
              /\ \/ pc' = "request" /\ attempt' = attempt + 1
                 \/ pc' = "fetched" /\ lastCall' = "exhausted"
                      /\ attempt = MAX_RETRIES - 1
         ELSE /\ pc' = "fetched" /\ lastCall' = "gqlerror"
              /\ result' = EmptyResult /\ slept' = NoSleep ]_vars

\* C21: an attempt of index i that ends in a transport failure or in a
\* status other than 200, 401, 403 and 429 is followed by a sleep of
\* RETRY_DELAY * (i + 1) seconds, so within one call each such sleep is
\* longer than the one before it.
C21_IsBackoffStep ==
  pc = "request" /\ pc' \in {"request", "fetched"} /\ slept'.why = "backoff"

C21_LinearBackoff ==
  /\ [][ C21_IsBackoffStep => slept'.secs = RETRY_DELAY * (attempt + 1) ]_vars
  /\ [][ (C21_IsBackoffStep /\ slept.why = "backoff") => slept'.secs > slept.secs ]_vars

\* Every attempt of a call ended in such a failure: the last sleep was
\* RETRY_DELAY * MAX_RETRIES seconds.
C21_Witness ==
  /\ pc = "fetched" /\ lastCall = "exhausted"
  /\ slept = Sleep("backoff", RETRY_DELAY * MAX_RETRIES)

\* C22: rate_limit_remaining and rate_limit_reset change only while a
\* request is made, and what they hold when a payload has come back is what
\* make_graphql_request took from the headers of the response.
C22_PayloadStep ==
  pc = "request" /\ pc' \in {"fetched", "close"} /\ lastCall' = "ok"

C22_SingleWriter ==
  /\ [][ (rate_limit_remaining' # rate_limit_remaining
            \/ rate_limit_reset' # rate_limit_reset) => pc = "request" ]_vars
  /\ [][ C22_PayloadStep
         => /\ rate_limit_remaining' = HeaderRemaining(input'.header, rate_limit_remaining)
            /\ rate_limit_reset' = HeaderReset(input'.header, rate_limit_reset) ]_vars

\* C23: one page is in flight at a time and the batches are saved in page
\* order: a fetch starts only when every page fetched before it has been
\* saved (committed or rolled back) and no batch is pending, the batch that
\* is saved is the one of the page fetched last, a row never carries a
\* last-crawled time later than that save, and a step that sleeps for a
\* retry or for the throttle check saves nothing.
C23_RetrySleeps == {"backoff", "cooldown", "retry-after", "forbidden"}

C23_Sequential ==
  /\ [](requests - (now - 1) \in {0, 1})
  /\ [][ requests' # requests
         => page = << >> /\ result = EmptyResult /\ requests = now - 1 ]_vars
  /\ [][ SavesBatch
         => /\ requests = now /\ requests' = requests /\ now' = now + 1
            /\ \A k \in DOMAIN db' : db'[k].last_crawled <= now ]_vars
  /\ [][ (slept' # slept /\ slept'.why \in C23_RetrySleeps)
         => db' = db /\ requests' = requests /\ total_fetched' = total_fetched ]_vars
  /\ [][ (slept' # slept /\ slept'.why = "throttle")
         => db' = db /\ total_fetched' = total_fetched /\ page = << >> ]_vars

\* The second page has been saved after the first: rows of both saves are
\* in the store and no page is in flight.
C23_Witness ==
  /\ pc = "loop" /\ requests = 2 /\ now = 3
  /\ \E j, k \in DOMAIN db : db[j].last_crawled = 1 /\ db[k].last_crawled = 2

\* C24: the store is closed once on every way out of run (normal end,
\* interrupt, error) and never twice; the summary is written, and the store
\* is read and written, only before the close.
C24_ReleasedOnce ==
  /\ [](closed <= 1)
  /\ [](pc = "done" <=> closed = 1)
  /\ [][ (metadata' # metadata \/ Persisted(db') # Persisted(db))
         => closed = 0 /\ closed' = 0 ]_vars
  /\ [][ closed >= 1 => db' = db /\ metadata' = metadata /\ closed' = closed ]_vars

\* A run that saved a record and wrote its summary has closed the store.
C24_Witness ==
  pc = "done" /\ exit = "normal" /\ closed = 1 /\ Len(metadata) = 1 /\ Len(db) >= 1

\* C25: when every attempt returns and every sleep ends, run ends.  Each
\* pass of the loop either leaves the loop or raises the running total by
\* one or more, so a run starts at most TOTAL_REPOS page fetches.
C25_Terminates ==
  /\ <>(pc = "done")
  /\ [](requests <= TOTAL_REPOS)
  /\ [][ (pc = "fetched" /\ pc' # pc)
         => \/ pc' \in {"finalize", "done"}
            \/ pc' = "loop" /\ total_fetched' >= total_fetched + 1 ]_vars

\* A run used every fetch the target allows and ended.
C25_Witness == pc = "done" /\ exit = "normal" /\ requests = TOTAL_REPOS

\* C26: the running total grows by the size of every non-empty batch that
\* is handed to save_batch_to_db, committed or rolled back, and by nothing
\* else; a rolled-back batch also moves has_next_page and the cursor on;
\* the summary holds the running total, which may be more than the store
\* holds.
C26_TotalCountsBatches ==
  /\ [][ SavesBatch
         => /\ total_fetched' = total_fetched + Len(result.repositories)
            /\ cursor' = result.end_cursor
            /\ has_next_page' = result.has_next_page ]_vars
  /\ [][ total_fetched' # total_fetched => SavesBatch ]_vars
  /\ [](\A i \in DOMAIN metadata : metadata[i].total_repos_crawled = total_fetched)

\* Two records were counted, their batch was rolled back, and the summary
\* says 2 over an empty store.
C26_Witness ==
  /\ pc = "done" /\ exit = "normal" /\ lastSave \in {"fault", "rejected"}
  /\ Len(metadata) = 1 /\ metadata[1].total_repos_crawled = 2 /\ Len(db) = 0

====
